---- MODULE Spec2Model ----
(***************************************************************************)
(* A model of etcd-secret-reader: the snapshot reader (pkg/etcdreader) and *)
(* the AES-CBC envelope decryptor (pkg/decrypt).                           *)
(*                                                                         *)
(* Byte strings are sequences.  Logical keys are sequences of characters,  *)
(* values and envelopes are sequences of byte values 0..255.               *)
(*                                                                         *)
(* SpecReader: a snapshot is written record by record, a Reader opens it,  *)
(* and Get, ListSecrets, ListAll and Close are called on it.               *)
(* SpecDecrypt: a decryptor is constructed and Decrypt is called on an     *)
(* input buffer.                                                           *)
(***************************************************************************)
EXTENDS Integers, Sequences, FiniteSets

VARIABLES
    file,        \* the snapshot file: [valid, bucket, recs]
    rdr,         \* the Reader: "none" | "open" | "closed" (r.db and bolt's opened flag)
    closeCalls,  \* number of Close calls made on the Reader
    input,       \* the buffer handed to Decrypt and what it was built from
    dec,         \* the AESCBCDecryptor: [set, key, keyName]
    ret,         \* what the last call returned: [op, arg, data, list, err]
    calls,       \* the concurrent Decrypt calls: caller -> [pc, iv, ciphertext, ret]
    heap,        \* the buffers of the concurrent calls: location -> bytes
    cli          \* the command line program: [args, pc, queue, gets, data, stdout, stderr, exit]

vars == <<file, rdr, closeCalls, input, dec, ret, calls, heap, cli>>

(***************************************************************************)
(* Bounds of the model.                                                    *)
(***************************************************************************)
MaxRecords == 3      \* physical records in a snapshot
MaxCloseCalls == 3   \* Close calls counted on one Reader
RevBits == 3         \* width the 64-bit revision fields are scaled to
MaxCallers == 2      \* goroutines that call Decrypt on one decryptor

(***************************************************************************)
(* pkg/etcdreader: the physical key layout.                                *)
(***************************************************************************)
revBytesLen == 8 + 1 + 8
markedRevBytesLen == revBytesLen + 1

\* Revision fields as stored (unsigned, big-endian): zero, one and the
\* smallest value whose top bit is set.
Mains == {0, 1, 2 ^ (RevBits - 1)}
Subs == {0, 1}

\* int64(binary.BigEndian.Uint64(b)): the stored unsigned field read as a
\* two's-complement signed number of the same width.
ToInt64(u) == IF u >= 2 ^ (RevBits - 1) THEN u - 2 ^ RevBits ELSE u

SecretsPrefix ==
    <<"/","r","e","g","i","s","t","r","y","/","s","e","c","r","e","t","s","/">>
OpenShiftPrefix ==
    <<"/","k","u","b","e","r","n","e","t","e","s",".","i","o","/",
      "s","e","c","r","e","t","s","/">>
ConfigMapsPrefix ==
    <<"/","r","e","g","i","s","t","r","y","/",
      "c","o","n","f","i","g","m","a","p","s","/">>

\* The logical keys of the model's snapshots.
KeyA == SecretsPrefix \o <<"a">>
KeyB == OpenShiftPrefix \o <<"b">>
KeyC == ConfigMapsPrefix \o <<"c">>
LogicalKeys == {KeyA, KeyB, KeyC}

\* Value blobs: "{" and "{}".
Val1 == <<123>>
Val2 == <<123, 125>>

\* What the value blob of a physical record holds: a KeyValue that decodes
\* (ok) with its Key and Value, or a blob that does not decode, of which the
\* decoder may have filled in part before failing.
LiveContents ==
    {[ok |-> TRUE, key |-> KeyA, val |-> Val1],
     [ok |-> TRUE, key |-> KeyA, val |-> Val2],
     [ok |-> TRUE, key |-> KeyB, val |-> Val1],
     [ok |-> TRUE, key |-> KeyC, val |-> Val1]}
TombstoneContents == {[ok |-> TRUE, key |-> k, val |-> <<>>] : k \in LogicalKeys}
MalformedContents == {[ok |-> FALSE, key |-> KeyA, val |-> Val2]}

\* A physical record: the bbolt key (main, '_', sub and, for a tombstone, a
\* marker byte; klen is its length in bytes) and the decoded value blob.
PhysicalRecords ==
    {[main |-> m, sub |-> s, klen |-> revBytesLen,
      ok |-> c.ok, key |-> c.key, val |-> c.val] :
        m \in Mains, s \in Subs, c \in LiveContents \cup MalformedContents}
    \cup
    {[main |-> m, sub |-> s, klen |-> markedRevBytesLen,
      ok |-> c.ok, key |-> c.key, val |-> c.val] :
        m \in Mains, s \in Subs, c \in TombstoneContents \cup MalformedContents}

\* Revisions are never reused and grow: a record is written at a revision
\* above every revision already in the snapshot.
RevisionAbove(S, r) ==
    \A o \in S : o.main < r.main \/ (o.main = r.main /\ o.sub < r.sub)

\* The snapshot files before anything is written to the key bucket: a file
\* bolt.Open rejects, a bolt file without the "key" bucket, and a bolt file
\* with an empty key bucket.
SnapshotFiles ==
    {[valid |-> FALSE, bucket |-> FALSE, recs |-> {}],
     [valid |-> TRUE, bucket |-> FALSE, recs |-> {}],
     [valid |-> TRUE, bucket |-> TRUE, recs |-> {}]}

(***************************************************************************)
(* bbolt cursor order: keys compare bytewise, so a (main, '_', sub[, 't'])  *)
(* key sorts by unsigned main, then unsigned sub, then length.             *)
(***************************************************************************)
KeyLess(a, b) ==
    \/ a.main < b.main
    \/ a.main = b.main /\ a.sub < b.sub
    \/ a.main = b.main /\ a.sub = b.sub /\ a.klen < b.klen

\* c.First() ... c.Next(): the records of the bucket in cursor order.
RECURSIVE Cursor(_)
Cursor(S) ==
    IF S = {} THEN <<>>
    ELSE LET first == CHOOSE r \in S : \A o \in S \ {r} : KeyLess(r, o)
         IN  <<first>> \o Cursor(S \ {first})

\* Mutant: a blob that fails to decode is used as far as it was decoded.
Unmarshal_Always(r) == TRUE

\* kv.Unmarshal(v) succeeded.
Unmarshal(r) == r.ok

isTombstone(r) == r.klen = markedRevBytesLen

bytesToRev(r) == [main |-> ToInt64(r.main), sub |-> ToInt64(r.sub)]

\* bytesToRev slices bytes[0:8] and bytes[9:] and reads 8 bytes of the
\* latter with no check of len(bytes): on a key shorter than 17 bytes one
\* of the three is out of range and the goroutine panics.
bytesToRevPanics(r) == r.klen < 8 \/ r.klen < 9 \/ r.klen - 9 < 8

HasPrefix(s, p) == Len(s) >= Len(p) /\ SubSeq(s, 1, Len(p)) = p

\* Mutant: only the standard Kubernetes prefix.
prefixes_FirstOnly == <<SecretsPrefix>>

prefixes == <<SecretsPrefix, OpenShiftPrefix>>

\* The error values of the reader; NoError is Go's nil error.
NoError == "nil"
OpenFailed == "failed to open snapshot"
BucketMissing == "key bucket not found in snapshot"
KeyNotFound == "key not found"
CloseFailed == "close failed"

\* Not an error value: the call did not return, a run-time panic unwound it.
Aborted == "panic: runtime error: slice bounds out of range"

(***************************************************************************)
(* Reader.Get: the scan loop, then the result.                             *)
(***************************************************************************)
RECURSIVE GetScan(_, _, _, _)
GetScan(recs, key, latestRev, data) ==
    IF recs = <<>> THEN [latestRev |-> latestRev, data |-> data, panic |-> FALSE]
    ELSE LET r == Head(recs)
             rest == Tail(recs)
         IN  IF ~Unmarshal(r) THEN GetScan(rest, key, latestRev, data)
             ELSE IF r.key = key /\ ~isTombstone(r)
                  THEN IF bytesToRevPanics(r)
                       THEN [latestRev |-> latestRev, data |-> data, panic |-> TRUE]
                       ELSE IF bytesToRev(r).main > latestRev
                       THEN GetScan(rest, key, bytesToRev(r).main, r.val)
                       ELSE GetScan(rest, key, latestRev, data)
                  ELSE GetScan(rest, key, latestRev, data)

Get(f, key) ==
    IF ~f.bucket THEN [data |-> <<>>, err |-> BucketMissing]
    ELSE LET s == GetScan(Cursor(f.recs), key, -1, <<>>)
         IN  IF s.panic
             THEN [data |-> <<>>, err |-> Aborted]
             ELSE IF s.latestRev = -1
             THEN [data |-> s.data, err |-> KeyNotFound]
             ELSE [data |-> s.data, err |-> NoError]

(***************************************************************************)
(* Reader.ListSecrets and Reader.ListAll: the scan loops build seenKeys;   *)
(* the result lists the keys of the map in Go's unspecified map order.     *)
(***************************************************************************)
MatchesAnyPrefix(key) == \E i \in 1..Len(prefixes) : HasPrefix(key, prefixes[i])

\* Mutant: the secrets scan skips a tombstone instead of retracting the key.
RECURSIVE ListSecretsScan_NoRetract(_, _)
ListSecretsScan_NoRetract(recs, seenKeys) ==
    IF recs = <<>> THEN seenKeys
    ELSE LET r == Head(recs)
             rest == Tail(recs)
         IN  IF ~Unmarshal(r) THEN ListSecretsScan_NoRetract(rest, seenKeys)
             ELSE IF MatchesAnyPrefix(r.key)
                  THEN IF ~isTombstone(r)
                       THEN ListSecretsScan_NoRetract(rest, seenKeys \cup {r.key})
                       ELSE ListSecretsScan_NoRetract(rest, seenKeys)
                  ELSE ListSecretsScan_NoRetract(rest, seenKeys)

RECURSIVE ListSecretsScan(_, _)
ListSecretsScan(recs, seenKeys) ==
    IF recs = <<>> THEN seenKeys
    ELSE LET r == Head(recs)
             rest == Tail(recs)
         IN  IF ~Unmarshal(r) THEN ListSecretsScan(rest, seenKeys)
             ELSE IF MatchesAnyPrefix(r.key)
                  THEN IF ~isTombstone(r)
                       THEN ListSecretsScan(rest, seenKeys \cup {r.key})
                       ELSE ListSecretsScan(rest, seenKeys \ {r.key})
                  ELSE ListSecretsScan(rest, seenKeys)

\* Mutant: a tombstone is skipped instead of retracting the key.
RECURSIVE ListAllScan_NoRetract(_, _)
ListAllScan_NoRetract(recs, seenKeys) ==
    IF recs = <<>> THEN seenKeys
    ELSE LET r == Head(recs)
             rest == Tail(recs)
         IN  IF ~Unmarshal(r) \/ isTombstone(r)
             THEN ListAllScan_NoRetract(rest, seenKeys)
             ELSE ListAllScan_NoRetract(rest, seenKeys \cup {r.key})

RECURSIVE ListAllScan(_, _)
ListAllScan(recs, seenKeys) ==
    IF recs = <<>> THEN seenKeys
    ELSE LET r == Head(recs)
             rest == Tail(recs)
         IN  IF ~Unmarshal(r) THEN ListAllScan(rest, seenKeys)
             ELSE IF ~isTombstone(r)
                  THEN ListAllScan(rest, seenKeys \cup {r.key})
                  ELSE ListAllScan(rest, seenKeys \ {r.key})

\* for key := range seenKeys { keys = append(keys, key) }: every order.
RECURSIVE MapOrders(_)
MapOrders(S) ==
    IF S = {} THEN {<<>>}
    ELSE UNION {{<<k>> \o t : t \in MapOrders(S \ {k})} : k \in S}

ListSecrets(f) ==
    IF ~f.bucket THEN {[list |-> <<>>, err |-> BucketMissing]}
    ELSE {[list |-> l, err |-> NoError] :
            l \in MapOrders(ListSecretsScan(Cursor(f.recs), {}))}

ListAll(f) ==
    IF ~f.bucket THEN {[list |-> <<>>, err |-> BucketMissing]}
    ELSE {[list |-> l, err |-> NoError] :
            l \in MapOrders(ListAllScan(Cursor(f.recs), {}))}

(***************************************************************************)
(* Reader.Close: r.db.Close() whenever r.db is set.  bolt's DB.Close       *)
(* releases the file on the first call and finds the database already      *)
(* closed, returning nil, on every later one.                              *)
(***************************************************************************)
BoltClose(state) ==
    IF state = "open" THEN {NoError, CloseFailed} ELSE {NoError}

\* Mutant: closing a Reader that is already closed is an error.
ReaderClose_Strict(state) ==
    IF state = "open" THEN BoltClose(state) ELSE {CloseFailed}

ReaderClose(state) ==
    IF state # "none" THEN BoltClose(state) ELSE {NoError}

(***************************************************************************)
(* pkg/decrypt: byte-level helpers.                                        *)
(***************************************************************************)
RECURSIVE Xor(_, _)
Xor(a, b) ==
    IF a = 0 THEN b
    ELSE IF b = 0 THEN a
    ELSE (((a % 2) + (b % 2)) % 2) + 2 * Xor(a \div 2, b \div 2)

Repeat(b, n) == [i \in 1..n |-> b]

\* "k8s:enc:aescbc:v1:"
prefix == <<107, 56, 115, 58, 101, 110, 99, 58, 97, 101, 115, 99, 98, 99, 58, 118, 49, 58>>
Colon == <<58>>

\* Mutant: the buffers passed through are those that start with '['.
Brace_Bracket == <<91>>

\* "{"
Brace == <<123>>

blockSize == 16

\* The error values of the decryptor.
InvalidKeyLength == "AES-CBC requires a 32-byte key"
NoEnvelope == "data does not have expected encryption prefix"
MalformedEnvelope == "invalid encrypted data format"
KeyIdMismatch == "key name mismatch"
CiphertextTooShort == "ciphertext too short"
CiphertextMisaligned == "ciphertext is not a multiple of block size"
PaddingInvalid == "failed to remove padding"
EmptyData == "empty data"
InvalidPaddingLength == "invalid padding length"
PaddingExceedsData == "padding length exceeds data length"
InvalidPaddingByte == "invalid padding at position"
NotEnvelope == "not encrypted with k8s encryption"
MalformedHeader == "invalid encryption prefix format"

(***************************************************************************)
(* The block cipher.  crypto/aes is outside the repository; what the code  *)
(* relies on is that, for each 32-byte key, decrypting a block undoes      *)
(* encrypting it.  The model uses a keyed permutation of 16-byte blocks    *)
(* with that property: each byte is xor-ed with one key byte and shifted   *)
(* by another.                                                             *)
(***************************************************************************)
BlockEncrypt(key, blk) ==
    [i \in 1..blockSize |-> (Xor(blk[i], key[i]) + key[blockSize + i]) % 256]

BlockDecrypt(key, blk) ==
    [i \in 1..blockSize |-> Xor((blk[i] + 256 - key[blockSize + i]) % 256, key[i])]

XorBlock(a, b) == [i \in 1..blockSize |-> Xor(a[i], b[i])]

BlockAt(s, n) == SubSeq(s, (n - 1) * blockSize + 1, n * blockSize)

\* cipher.NewCBCEncrypter(block, iv).CryptBlocks(dst, src)
RECURSIVE CBCEncrypt(_, _, _)
CBCEncrypt(key, iv, src) ==
    IF src = <<>> THEN <<>>
    ELSE LET c == BlockEncrypt(key, XorBlock(BlockAt(src, 1), iv))
         IN  c \o CBCEncrypt(key, c, SubSeq(src, blockSize + 1, Len(src)))

\* cipher.NewCBCDecrypter(block, iv).CryptBlocks(dst, src)
RECURSIVE CBCDecrypt(_, _, _)
CBCDecrypt(key, iv, src) ==
    IF src = <<>> THEN <<>>
    ELSE LET c == BlockAt(src, 1)
         IN  XorBlock(BlockDecrypt(key, c), iv)
                 \o CBCDecrypt(key, c, SubSeq(src, blockSize + 1, Len(src)))

\* encryptTestData of the tests: PKCS#7-pad, CBC-encrypt, prepend the IV
\* (iv stands for the bytes rand.Read produced).
encryptTestData(key, plaintext, iv) ==
    LET paddingLen == blockSize - (Len(plaintext) % blockSize)
        paddedPlaintext == plaintext \o Repeat(paddingLen, paddingLen)
    IN  iv \o CBCEncrypt(key, iv, paddedPlaintext)

\* append([]byte("k8s:enc:aescbc:v1:" + keyName + ":"), encrypted...)
fullEncrypted(keyName, encrypted) == prefix \o keyName \o Colon \o encrypted

(***************************************************************************)
(* NewAESCBCDecryptor, removePKCS7Padding and Decrypt.                     *)
(***************************************************************************)
NoDec == [set |-> FALSE, key |-> <<>>, keyName |-> <<>>]

\* Mutant: every key length that aes.NewCipher takes is accepted.
NewAESCBCDecryptor_AnyAES(key, keyName) ==
    IF Len(key) \notin {16, 24, 32}
    THEN [dec |-> NoDec, err |-> InvalidKeyLength]
    ELSE [dec |-> [set |-> TRUE, key |-> key, keyName |-> keyName], err |-> NoError]

NewAESCBCDecryptor(key, keyName) ==
    IF Len(key) # 32
    THEN [dec |-> NoDec, err |-> InvalidKeyLength]
    ELSE [dec |-> [set |-> TRUE, key |-> key, keyName |-> keyName], err |-> NoError]

\* Mutant: only the last byte of the padding is looked at.
PaddingBytesOk_LastOnly(data, i, paddingLen) == TRUE

RECURSIVE PaddingBytesOk(_, _, _)
PaddingBytesOk(data, i, paddingLen) ==
    IF i > Len(data) THEN TRUE
    ELSE IF data[i] # paddingLen THEN FALSE
    ELSE PaddingBytesOk(data, i + 1, paddingLen)

\* Mutant: the padding is verified and left in place.
removePKCS7Padding_KeepsPadding(data, bs) ==
    IF Len(data) = 0 THEN [data |-> <<>>, err |-> EmptyData]
    ELSE LET paddingLen == data[Len(data)]
         IN  IF paddingLen = 0 \/ paddingLen > bs
             THEN [data |-> <<>>, err |-> InvalidPaddingLength]
             ELSE IF paddingLen > Len(data)
             THEN [data |-> <<>>, err |-> PaddingExceedsData]
             ELSE IF ~PaddingBytesOk(data, Len(data) - paddingLen + 1, paddingLen)
             THEN [data |-> <<>>, err |-> InvalidPaddingByte]
             ELSE [data |-> data, err |-> NoError]

\* Mutant: a padding of a whole block is rejected.
removePKCS7Padding_NoFullBlock(data, bs) ==
    IF Len(data) = 0 THEN [data |-> <<>>, err |-> EmptyData]
    ELSE LET paddingLen == data[Len(data)]
         IN  IF paddingLen = 0 \/ paddingLen >= bs
             THEN [data |-> <<>>, err |-> InvalidPaddingLength]
             ELSE IF paddingLen > Len(data)
             THEN [data |-> <<>>, err |-> PaddingExceedsData]
             ELSE IF ~PaddingBytesOk(data, Len(data) - paddingLen + 1, paddingLen)
             THEN [data |-> <<>>, err |-> InvalidPaddingByte]
             ELSE [data |-> SubSeq(data, 1, Len(data) - paddingLen), err |-> NoError]

\* Mutant: a padding length of zero is accepted.
removePKCS7Padding_ZeroOk(data, bs) ==
    IF Len(data) = 0 THEN [data |-> <<>>, err |-> EmptyData]
    ELSE LET paddingLen == data[Len(data)]
         IN  IF paddingLen > bs
             THEN [data |-> <<>>, err |-> InvalidPaddingLength]
             ELSE IF paddingLen > Len(data)
             THEN [data |-> <<>>, err |-> PaddingExceedsData]
             ELSE IF ~PaddingBytesOk(data, Len(data) - paddingLen + 1, paddingLen)
             THEN [data |-> <<>>, err |-> InvalidPaddingByte]
             ELSE [data |-> SubSeq(data, 1, Len(data) - paddingLen), err |-> NoError]

removePKCS7Padding(data, bs) ==
    IF Len(data) = 0 THEN [data |-> <<>>, err |-> EmptyData]
    ELSE LET paddingLen == data[Len(data)]
         IN  IF paddingLen = 0 \/ paddingLen > bs
             THEN [data |-> <<>>, err |-> InvalidPaddingLength]
             ELSE IF paddingLen > Len(data)
             THEN [data |-> <<>>, err |-> PaddingExceedsData]
             ELSE IF ~PaddingBytesOk(data, Len(data) - paddingLen + 1, paddingLen)
             THEN [data |-> <<>>, err |-> InvalidPaddingByte]
             ELSE [data |-> SubSeq(data, 1, Len(data) - paddingLen), err |-> NoError]

\* Position of the first sep byte in s at or after i, 0 when there is none.
RECURSIVE IndexFrom(_, _, _)
IndexFrom(s, sep, i) ==
    IF i > Len(s) THEN 0
    ELSE IF s[i] = sep THEN i
    ELSE IndexFrom(s, sep, i + 1)

\* bytes.SplitN(s, []byte(":"), 2)
SplitN2(s, sep) ==
    LET at == IndexFrom(s, sep, 1)
    IN  IF at = 0 THEN <<s>>
        ELSE <<SubSeq(s, 1, at - 1), SubSeq(s, at + 1, Len(s))>>

\* Mutant: the key name is not compared at all.
KeyNameMismatch_Off(bound, keyName) == FALSE

\* Mutant: the key name is compared even when the bound key name is empty.
KeyNameMismatch_Strict(bound, keyName) == keyName # bound

\* d.keyName != "" && keyName != d.keyName
KeyNameMismatch(bound, keyName) == bound # <<>> /\ keyName # bound

\* Mutant: the payload's length is checked before the key name.
Decrypt_LengthFirst(d, data) ==
    IF ~HasPrefix(data, prefix)
    THEN IF HasPrefix(data, Brace)
         THEN [data |-> data, err |-> NoError]
         ELSE [data |-> <<>>, err |-> NoEnvelope]
    ELSE
    LET dataWithoutPrefix == SubSeq(data, Len(prefix) + 1, Len(data))
        parts == SplitN2(dataWithoutPrefix, 58)
    IN  IF Len(parts) # 2 THEN [data |-> <<>>, err |-> MalformedEnvelope]
        ELSE
        LET keyName == parts[1]
            encryptedPayload == parts[2]
        IN  IF Len(encryptedPayload) < blockSize
            THEN [data |-> <<>>, err |-> CiphertextTooShort]
            ELSE IF Len(encryptedPayload) % blockSize # 0
            THEN [data |-> <<>>, err |-> CiphertextMisaligned]
            ELSE IF KeyNameMismatch(d.keyName, keyName)
            THEN [data |-> <<>>, err |-> KeyIdMismatch]
            ELSE
            LET iv == SubSeq(encryptedPayload, 1, blockSize)
                ciphertext ==
                    SubSeq(encryptedPayload, blockSize + 1, Len(encryptedPayload))
                plaintext == CBCDecrypt(d.key, iv, ciphertext)
                decrypted == removePKCS7Padding(plaintext, blockSize)
            IN  IF decrypted.err # NoError
                THEN [data |-> <<>>, err |-> PaddingInvalid]
                ELSE [data |-> decrypted.data, err |-> NoError]

\* Mutant: the bytes whose padding was refused are returned with the error.
Decrypt_KeepsPlaintext(d, data) ==
    IF ~HasPrefix(data, prefix)
    THEN IF HasPrefix(data, Brace)
         THEN [data |-> data, err |-> NoError]
         ELSE [data |-> <<>>, err |-> NoEnvelope]
    ELSE
    LET dataWithoutPrefix == SubSeq(data, Len(prefix) + 1, Len(data))
        parts == SplitN2(dataWithoutPrefix, 58)
    IN  IF Len(parts) # 2 THEN [data |-> <<>>, err |-> MalformedEnvelope]
        ELSE
        LET keyName == parts[1]
            encryptedPayload == parts[2]
        IN  IF KeyNameMismatch(d.keyName, keyName)
            THEN [data |-> <<>>, err |-> KeyIdMismatch]
            ELSE IF Len(encryptedPayload) < blockSize
            THEN [data |-> <<>>, err |-> CiphertextTooShort]
            ELSE IF Len(encryptedPayload) % blockSize # 0
            THEN [data |-> <<>>, err |-> CiphertextMisaligned]
            ELSE
            LET iv == SubSeq(encryptedPayload, 1, blockSize)
                ciphertext ==
                    SubSeq(encryptedPayload, blockSize + 1, Len(encryptedPayload))
                plaintext == CBCDecrypt(d.key, iv, ciphertext)
                decrypted == removePKCS7Padding(plaintext, blockSize)
            IN  IF decrypted.err # NoError
                THEN [data |-> plaintext, err |-> PaddingInvalid]
                ELSE [data |-> decrypted.data, err |-> NoError]

Decrypt(d, data) ==
    IF ~HasPrefix(data, prefix)
    THEN IF HasPrefix(data, Brace)
         THEN [data |-> data, err |-> NoError]
         ELSE [data |-> <<>>, err |-> NoEnvelope]
    ELSE
    LET dataWithoutPrefix == SubSeq(data, Len(prefix) + 1, Len(data))
        parts == SplitN2(dataWithoutPrefix, 58)
    IN  IF Len(parts) # 2 THEN [data |-> <<>>, err |-> MalformedEnvelope]
        ELSE
        LET keyName == parts[1]
            encryptedPayload == parts[2]
        IN  IF KeyNameMismatch(d.keyName, keyName)
            THEN [data |-> <<>>, err |-> KeyIdMismatch]
            ELSE IF Len(encryptedPayload) < blockSize
            THEN [data |-> <<>>, err |-> CiphertextTooShort]
            ELSE IF Len(encryptedPayload) % blockSize # 0
            THEN [data |-> <<>>, err |-> CiphertextMisaligned]
            ELSE
            LET iv == SubSeq(encryptedPayload, 1, blockSize)
                ciphertext ==
                    SubSeq(encryptedPayload, blockSize + 1, Len(encryptedPayload))
                plaintext == CBCDecrypt(d.key, iv, ciphertext)
                decrypted == removePKCS7Padding(plaintext, blockSize)
            IN  IF decrypted.err # NoError
                THEN [data |-> <<>>, err |-> PaddingInvalid]
                ELSE [data |-> decrypted.data, err |-> NoError]

\* strings.Split(s, ":"): every field between separators, empty ones too.
RECURSIVE Split(_, _)
Split(s, sep) ==
    LET at == IndexFrom(s, sep, 1)
    IN  IF at = 0 THEN <<s>>
        ELSE <<SubSeq(s, 1, at - 1)>> \o Split(SubSeq(s, at + 1, Len(s)), sep)

\* "k8s:enc:"
encPrefix == <<107, 56, 115, 58, 101, 110, 99, 58>>

\* Mutant: the key name is taken one field too early.
ParseEncryptionPrefix_VersionField(data) ==
    IF ~HasPrefix(data, encPrefix)
    THEN [provider |-> <<>>, keyName |-> <<>>, err |-> NotEnvelope]
    ELSE LET parts == Split(data, 58)
         IN  IF Len(parts) < 5
             THEN [provider |-> <<>>, keyName |-> <<>>, err |-> MalformedHeader]
             ELSE [provider |-> parts[3], keyName |-> parts[4], err |-> NoError]

\* string(data) keeps every byte, so the string is modelled by the bytes;
\* parts[2] and parts[4] of the code count from zero.
ParseEncryptionPrefix(data) ==
    IF ~HasPrefix(data, encPrefix)
    THEN [provider |-> <<>>, keyName |-> <<>>, err |-> NotEnvelope]
    ELSE LET parts == Split(data, 58)
         IN  IF Len(parts) < 5
             THEN [provider |-> <<>>, keyName |-> <<>>, err |-> MalformedHeader]
             ELSE [provider |-> parts[3], keyName |-> parts[5], err |-> NoError]

(***************************************************************************)
(* The inputs of the decryptor.                                            *)
(***************************************************************************)
\* Cipher keys: a key as rand.Read may produce it, the all-zero key
\* make([]byte, 32) of the tests, a key that differs from the first in one
\* byte, and keys of 16, 64 and 0 bytes, which are not valid keys.
TestKey == [i \in 1..32 |-> (37 * i) % 256]
ZeroKey == Repeat(0, 32)
NearKey == [TestKey EXCEPT ![1] = 200]
ShortKey == Repeat(0, 16)
LongKey == Repeat(0, 64)
CipherKeys == {TestKey, ZeroKey, NearKey}
BadKeys == {ShortKey, LongKey, <<>>}

\* Key ids: "key1", "key2" and the empty key id.
Key1 == <<107, 101, 121, 49>>
Key2 == <<107, 101, 121, 50>>
EnvelopeKeyIds == {Key1, Key2}
BoundKeyIds == {<<>>, Key1, Key2}

\* Initialization vectors: all zero, and sixteen ':' bytes.
IVs == {Repeat(0, blockSize), Repeat(58, blockSize)}

\* Plaintexts of the lengths of the round-trip property: runs of 'x', runs
\* of the byte 16 (which reads as padding), and '{' followed by a ramp.
PlainLengths == {0, 1, 15, 16, 17, 32, 33}
Plaintexts ==
    {Repeat(120, n) : n \in PlainLengths}
    \cup {Repeat(16, n) : n \in PlainLengths}
    \cup {[i \in 1..n |-> IF i = 1 THEN 123 ELSE 95 + i] : n \in PlainLengths}

\* Payloads that no encryption produced: empty, shorter than a block, one
\* byte more than a block, a lone IV, and an IV with one block after it.
ForgedPayloads ==
    {<<>>, Repeat(58, 5), Repeat(7, 17), Repeat(0, 16), Repeat(9, 32)}

NoInput ==
    [kind |-> "none", keyName |-> <<>>, key |-> <<>>, iv |-> <<>>,
     plain |-> <<>>, data |-> <<>>]

\* Envelopes made by encryptTestData and the prefix, as the tests make them.
EncryptedInputs ==
    {[kind |-> "encrypted", keyName |-> id, key |-> k, iv |-> iv, plain |-> p,
      data |-> fullEncrypted(id, encryptTestData(k, p, iv))] :
        id \in EnvelopeKeyIds, k \in {TestKey, ZeroKey}, iv \in IVs, p \in Plaintexts}

\* Envelopes with a well-formed header and a forged payload.
ForgedInputs ==
    {[kind |-> "forged", keyName |-> id, key |-> <<>>, iv |-> <<>>, plain |-> <<>>,
      data |-> fullEncrypted(id, pl)] :
        id \in EnvelopeKeyIds \cup {<<>>}, pl \in ForgedPayloads}

\* Buffers that are no envelope with a key id and a payload: the prefix with
\* a key id and no ':' after it, the bare prefix, JSON plaintext, a '{' in
\* front of an envelope header, other text, proper prefixes of the prefix,
\* envelopes of other providers, and the empty buffer.
RawBuffers ==
    {<<107, 56, 115, 58, 101, 110, 99, 58, 97, 101, 115, 99, 98, 99, 58, 118, 49,
       58, 107, 101, 121, 49>>,                    \* "k8s:enc:aescbc:v1:key1"
     <<107, 56, 115, 58, 101, 110, 99, 58, 97, 101, 115, 99, 98, 99, 58, 118, 49,
       58>>,                                       \* "k8s:enc:aescbc:v1:"
     <<123, 125>>,                                 \* "{}"
     <<123, 34, 107, 105, 110, 100, 34, 58, 34, 83, 101, 99, 114, 101, 116, 34,
       125>>,                                      \* {"kind":"Secret"}
     <<123, 107, 56, 115, 58, 101, 110, 99, 58, 97, 101, 115, 99, 98, 99, 58, 118,
       49, 58, 107, 101, 121, 49, 58>>,            \* "{k8s:enc:aescbc:v1:key1:"
     <<105, 110, 118, 58>>,                        \* "inv:"
     <<112, 108, 97, 105, 110, 32, 116, 101, 120, 116, 32, 100, 97, 116, 97>>,
                                                   \* "plain text data"
     <<107, 56, 115, 58, 101, 110, 99, 58, 97, 101, 115, 99, 98, 99, 58, 118,
       49>>,                                       \* "k8s:enc:aescbc:v1"
     <<107, 56, 115, 58, 101, 110, 99, 58, 97, 101, 115, 99, 98, 99>>,
                                                   \* "k8s:enc:aescbc"
     <<107, 56, 115, 58, 101, 110, 99>>,           \* "k8s:enc"
     <<107, 56, 115, 58, 101, 110, 99, 58>>,       \* "k8s:enc:"
     <<107, 56, 115, 58, 101, 110, 99, 58, 97, 101, 115, 103, 99, 109, 58, 118,
       49, 58, 109, 121, 107, 101, 121, 58, 100, 97, 116, 97>>,
                                                   \* "k8s:enc:aesgcm:v1:mykey:data"
     <<107, 56, 115, 58, 101, 110, 99, 58, 115, 101, 99, 114, 101, 116, 98, 111,
       120, 58, 118, 49, 58, 107, 101, 121, 50, 58, 120>>,
                                                   \* "k8s:enc:secretbox:v1:key2:x"
     <<>>}

RawInputs ==
    {[kind |-> "raw", keyName |-> <<>>, key |-> <<>>, iv |-> <<>>, plain |-> <<>>,
      data |-> d] : d \in RawBuffers}

Inputs == EncryptedInputs \cup ForgedInputs \cup RawInputs

\* Buffers handed to removePKCS7Padding: those of the tests (one to sixteen
\* padding bytes after text, a wrong byte inside the padding, a last byte of
\* 0 and of 0x20, the empty buffer) and buffers whose last byte exceeds
\* their length or is one more than the block size.
Text == <<104, 101, 108, 108, 111, 32, 119, 111, 114, 108, 100>>
PaddingBuffers ==
    {Text \o Repeat(n, n) : n \in {1, 5, 16, 17}}
    \cup {Repeat(n, n) : n \in {1, 2, 16, 17}}
    \cup {Text \o <<5, 5, 5, 5, 6>>,
          Text \o <<5, 6, 5, 5, 5>>,
          Text \o <<6, 5, 5, 5, 5>>,
          Text \o <<5, 5, 5, 5, 0>>,
          Text \o <<32>>,
          <<0>>, <<5, 5, 5>>, Repeat(16, 15), <<>>}

(***************************************************************************)
(* The reader's state machine.                                             *)
(***************************************************************************)
NoArg == <<>>
Result(op, arg, data, list, err) ==
    [op |-> op, arg |-> arg, data |-> data, list |-> list, err |-> err]
NoResult == Result("none", NoArg, <<>>, <<>>, NoError)

\* No concurrent calls, no buffers of theirs, and no run of the program.
NoCalls == <<>>
NoHeap == <<>>
NoCli == [pc |-> "none"]

\* The keys the callers look up: the keys records are written under; a
\* snapshot that holds no record of one of them is the lookup of an absent key.
QueryKeys == LogicalKeys

InitReader ==
    /\ file \in SnapshotFiles
    /\ rdr = "none"
    /\ closeCalls = 0
    /\ input = NoInput
    /\ dec = NoDec
    /\ ret = NoResult
    /\ calls = NoCalls
    /\ heap = NoHeap
    /\ cli = NoCli

\* The snapshot is written before the Reader opens it: bucket.Put of one
\* more physical record, at a revision above those present.
PutRecord(r) ==
    /\ rdr = "none"
    /\ ret.op = "none"
    /\ file.bucket
    /\ Cardinality(file.recs) < MaxRecords
    /\ RevisionAbove(file.recs, r)
    /\ file' = [file EXCEPT !.recs = @ \cup {r}]
    /\ UNCHANGED <<rdr, closeCalls, input, dec, ret, calls, heap, cli>>

\* Mutant: the file is opened for writing, which creates a database where
\* there was none.
NewReader_ReadWrite ==
    /\ rdr = "none"
    /\ ret.op = "none"
    /\ rdr' = "open"
    /\ ret' = Result("NewReader", NoArg, <<>>, <<>>, NoError)
    /\ file' = IF file.valid THEN file
               ELSE [valid |-> TRUE, bucket |-> FALSE, recs |-> {}]
    /\ UNCHANGED <<closeCalls, input, dec, calls, heap, cli>>

\* bolt.Open with ReadOnly: true neither creates nor changes the file.
NewReader ==
    /\ rdr = "none"
    /\ ret.op = "none"
    /\ IF file.valid
       THEN /\ rdr' = "open"
            /\ ret' = Result("NewReader", NoArg, <<>>, <<>>, NoError)
       ELSE /\ rdr' = "none"
            /\ ret' = Result("NewReader", NoArg, <<>>, <<>>, OpenFailed)
    /\ UNCHANGED <<file, closeCalls, input, dec, calls, heap, cli>>

\* Get, ListSecrets and ListAll are called on a Reader that is open.
GetCall(key) ==
    /\ rdr = "open"
    /\ LET r == Get(file, key)
       IN  ret' = Result("Get", key, r.data, <<>>, r.err)
    /\ UNCHANGED <<file, rdr, closeCalls, input, dec, calls, heap, cli>>

ListSecretsCall ==
    /\ rdr = "open"
    /\ \E r \in ListSecrets(file) :
          ret' = Result("ListSecrets", NoArg, <<>>, r.list, r.err)
    /\ UNCHANGED <<file, rdr, closeCalls, input, dec, calls, heap, cli>>

ListAllCall ==
    /\ rdr = "open"
    /\ \E r \in ListAll(file) :
          ret' = Result("ListAll", NoArg, <<>>, r.list, r.err)
    /\ UNCHANGED <<file, rdr, closeCalls, input, dec, calls, heap, cli>>

Close ==
    /\ rdr # "none"
    /\ closeCalls < MaxCloseCalls
    /\ \E e \in ReaderClose(rdr) :
          ret' = Result("Close", NoArg, <<>>, <<>>, e)
    /\ rdr' = "closed"
    /\ closeCalls' = closeCalls + 1
    /\ UNCHANGED <<file, input, dec, calls, heap, cli>>

NextReader ==
    \/ \E r \in PhysicalRecords : PutRecord(r)
    \/ NewReader
    \/ \E key \in QueryKeys : GetCall(key)
    \/ ListSecretsCall
    \/ ListAllCall
    \/ Close

SpecReader == InitReader /\ [][NextReader]_vars

(***************************************************************************)
(* The reader on key tables that etcd did not write: bolt takes any        *)
(* non-empty byte string as a key, so a file may hold physical keys of     *)
(* other lengths than 17 and 18.                                           *)
(***************************************************************************)
\* Lengths of physical keys: main alone, one byte short of a revision, a
\* revision, a marked revision, and a marked revision with one more byte.
KeyLengths == {8, 16, revBytesLen, markedRevBytesLen, markedRevBytesLen + 1}

\* Records under such keys.  The bytes a short key lacks read as zero in the
\* cursor order, where a key sorts before every key it is a prefix of.
AnyLengthRecords ==
    {[main |-> m, sub |-> 0, klen |-> l, ok |-> TRUE, key |-> k,
      val |-> IF m = 0 THEN Val1 ELSE Val2] :
        m \in {0, 1}, l \in KeyLengths, k \in {KeyA, KeyC}}

\* Key tables of up to two records with different physical keys.
AnyLengthSnapshots ==
    {[valid |-> TRUE, bucket |-> TRUE, recs |-> {}]}
    \cup {[valid |-> TRUE, bucket |-> TRUE, recs |-> {p[1], p[2]}] :
            p \in {q \in AnyLengthRecords \X AnyLengthRecords :
                      \/ q[1] = q[2]
                      \/ q[1].main # q[2].main
                      \/ q[1].klen # q[2].klen}}

InitKeys ==
    /\ file \in AnyLengthSnapshots
    /\ rdr = "none"
    /\ closeCalls = 0
    /\ input = NoInput
    /\ dec = NoDec
    /\ ret = NoResult
    /\ calls = NoCalls
    /\ heap = NoHeap
    /\ cli = NoCli

NextKeys ==
    \/ NewReader
    \/ \E key \in QueryKeys : GetCall(key)
    \/ ListSecretsCall
    \/ ListAllCall
    \/ Close

SpecKeys == InitKeys /\ [][NextKeys]_vars

(***************************************************************************)
(* The decryptor's state machine: a decryptor is constructed, then Decrypt *)
(* is called on the input.                                                 *)
(***************************************************************************)
InitDecrypt ==
    /\ file = [valid |-> FALSE, bucket |-> FALSE, recs |-> {}]
    /\ rdr = "none"
    /\ closeCalls = 0
    /\ input \in Inputs
    /\ dec = NoDec
    /\ ret = NoResult
    /\ calls = NoCalls
    /\ heap = NoHeap
    /\ cli = NoCli

NewAESCBCDecryptorCall(key, keyName) ==
    /\ ~dec.set
    /\ ret.op = "none"
    /\ LET r == NewAESCBCDecryptor(key, keyName)
       IN  /\ dec' = r.dec
           /\ ret' = Result("NewAESCBCDecryptor", <<key, keyName>>, <<>>, <<>>, r.err)
    /\ UNCHANGED <<file, rdr, closeCalls, input, calls, heap, cli>>

\* removePKCS7Padding is called by the tests of its package on a buffer of
\* their choice.
RemovePKCS7PaddingCall(data) ==
    /\ ~dec.set
    /\ ret.op = "none"
    /\ LET r == removePKCS7Padding(data, blockSize)
       IN  ret' = Result("removePKCS7Padding", data, r.data, <<>>, r.err)
    /\ UNCHANGED <<file, rdr, closeCalls, input, dec, calls, heap, cli>>

\* ParseEncryptionPrefix is a function of the package: it needs no decryptor.
ParseEncryptionPrefixCall ==
    /\ ~dec.set
    /\ ret.op = "none"
    /\ LET r == ParseEncryptionPrefix(input.data)
       IN  ret' = Result("ParseEncryptionPrefix", NoArg, <<>>,
                         <<r.provider, r.keyName>>, r.err)
    /\ UNCHANGED <<file, rdr, closeCalls, input, dec, calls, heap, cli>>

DecryptCall ==
    /\ dec.set
    /\ LET r == Decrypt(dec, input.data)
       IN  ret' = Result("Decrypt", NoArg, r.data, <<>>, r.err)
    /\ UNCHANGED <<file, rdr, closeCalls, input, dec, calls, heap, cli>>

NextDecrypt ==
    \/ \E key \in CipherKeys \cup BadKeys, keyName \in BoundKeyIds :
          NewAESCBCDecryptorCall(key, keyName)
    \/ \E data \in PaddingBuffers : RemovePKCS7PaddingCall(data)
    \/ ParseEncryptionPrefixCall
    \/ DecryptCall

SpecDecrypt == InitDecrypt /\ [][NextDecrypt]_vars

(***************************************************************************)
(* Both packages: a run exercises either the reader on a snapshot or the   *)
(* decryptor on an input.                                                  *)
(***************************************************************************)
InitBoth == InitReader \/ InitDecrypt

NextBoth ==
    \/ input = NoInput /\ NextReader
    \/ input # NoInput /\ NextDecrypt

SpecBoth == InitBoth /\ [][NextBoth]_vars

(***************************************************************************)
(* One decryptor shared by concurrent callers.  Each caller passes its own *)
(* buffer; a Decrypt call is three steps, and the steps of different calls *)
(* interleave.  Buffers live in the heap: iv and ciphertext are slices of  *)
(* the caller's buffer, read when CryptBlocks runs.                        *)
(***************************************************************************)
Callers == 1..MaxCallers
Locations == 0..(2 * MaxCallers)

\* The location of the buffer caller c passes as data.
dataBuf(c) == c

\* Mutant: the plaintext is decrypted into one scratch buffer kept with the
\* decryptor.
plaintextBuf_Shared(c) == 0

\* plaintext := make([]byte, len(ciphertext)): a buffer of this call alone.
plaintextBuf(c) == MaxCallers + c

\* The buffers the callers pass: two envelopes under TestKey and "key1", a
\* lone IV, JSON plaintext, and a misaligned payload under "key2".
SharedBuffers ==
    {fullEncrypted(Key1, encryptTestData(TestKey, Repeat(120, 17), Repeat(0, blockSize))),
     fullEncrypted(Key1, encryptTestData(TestKey, [i \in 1..16 |-> IF i = 1 THEN 123 ELSE 95 + i],
                                         Repeat(58, blockSize))),
     fullEncrypted(Key1, Repeat(0, 16)),
     <<123, 125>>,
     fullEncrypted(Key2, Repeat(7, 17))}

NoReturn == [data |-> <<>>, err |-> "none"]

InitShared ==
    /\ file = [valid |-> FALSE, bucket |-> FALSE, recs |-> {}]
    /\ rdr = "none"
    /\ closeCalls = 0
    /\ input = NoInput
    /\ dec = NoDec
    /\ ret = NoResult
    /\ calls \in [Callers -> {[pc |-> "idle", data |-> d, payloadAt |-> 0, ret |-> NoReturn] :
                                  d \in SharedBuffers}]
    /\ heap = [l \in Locations |-> IF l \in Callers THEN calls[l].data ELSE <<>>]
    /\ cli = NoCli

\* Decrypt up to the length checks: the call returns here on a buffer that
\* is passed through or refused, and else goes on to decrypt the payload.
DecryptCheck(c) ==
    /\ dec.set
    /\ calls[c].pc = "idle"
    /\ LET data == heap[dataBuf(c)]
           return(r) == calls' = [calls EXCEPT ![c].pc = "done", ![c].ret = r]
       IN  IF ~HasPrefix(data, prefix)
           THEN IF HasPrefix(data, Brace)
                THEN return([data |-> data, err |-> NoError])
                ELSE return([data |-> <<>>, err |-> NoEnvelope])
           ELSE
           LET dataWithoutPrefix == SubSeq(data, Len(prefix) + 1, Len(data))
               parts == SplitN2(dataWithoutPrefix, 58)
           IN  IF Len(parts) # 2
               THEN return([data |-> <<>>, err |-> MalformedEnvelope])
               ELSE IF KeyNameMismatch(dec.keyName, parts[1])
               THEN return([data |-> <<>>, err |-> KeyIdMismatch])
               ELSE IF Len(parts[2]) < blockSize
               THEN return([data |-> <<>>, err |-> CiphertextTooShort])
               ELSE IF Len(parts[2]) % blockSize # 0
               THEN return([data |-> <<>>, err |-> CiphertextMisaligned])
               ELSE calls' = [calls EXCEPT ![c].pc = "crypt",
                                           ![c].payloadAt = Len(prefix) + Len(parts[1]) + 2]
    /\ UNCHANGED <<file, rdr, closeCalls, input, dec, ret, heap, cli>>

\* The plaintext buffer is allocated and CryptBlocks fills it from the iv
\* and ciphertext slices of the caller's buffer, with the bound cipher.
DecryptCryptBlocks(c) ==
    /\ calls[c].pc = "crypt"
    /\ LET data == heap[dataBuf(c)]
           encryptedPayload == SubSeq(data, calls[c].payloadAt, Len(data))
           iv == SubSeq(encryptedPayload, 1, blockSize)
           ciphertext == SubSeq(encryptedPayload, blockSize + 1, Len(encryptedPayload))
       IN  heap' = [heap EXCEPT ![plaintextBuf(c)] = CBCDecrypt(dec.key, iv, ciphertext)]
    /\ calls' = [calls EXCEPT ![c].pc = "unpad"]
    /\ UNCHANGED <<file, rdr, closeCalls, input, dec, ret, cli>>

\* The padding of the plaintext buffer is removed and the call returns.
DecryptUnpad(c) ==
    /\ calls[c].pc = "unpad"
    /\ LET decrypted == removePKCS7Padding(heap[plaintextBuf(c)], blockSize)
       IN  calls' = [calls EXCEPT
                        ![c].pc = "done",
                        ![c].ret = IF decrypted.err # NoError
                                   THEN [data |-> <<>>, err |-> PaddingInvalid]
                                   ELSE [data |-> decrypted.data, err |-> NoError]]
    /\ UNCHANGED <<file, rdr, closeCalls, input, dec, ret, heap, cli>>

NextShared ==
    \/ \E key \in {TestKey, NearKey}, keyName \in {Key1, <<>>} :
          NewAESCBCDecryptorCall(key, keyName)
    \/ \E c \in Callers : DecryptCheck(c)
    \/ \E c \in Callers : DecryptCryptBlocks(c)
    \/ \E c \in Callers : DecryptUnpad(c)

SpecShared == InitShared /\ [][NextShared]_vars

(***************************************************************************)
(* The command line program, main: flags, the Reader, then one of the      *)
(* modes list-all, list, one secret, all secrets.  os.Exit ends the        *)
(* process at once; a return from main runs the deferred reader.Close.     *)
(***************************************************************************)
\* Namespace and name of the secret asked for, and the paths of the model.
Ns == <<"n", "s">>
Name == <<"n">>
Name2 == <<"m">>

\* fmt.Sprintf("<prefix>%s/%s", namespace, secretName)
SecretPath(pfx, namespace, secretName) == pfx \o namespace \o <<"/">> \o secretName

PathK8s == SecretPath(SecretsPrefix, Ns, Name)
PathOs == SecretPath(OpenShiftPrefix, Ns, Name)
PathK8s2 == SecretPath(SecretsPrefix, Ns, Name2)

\* Stored values: an envelope of the JSON document "{}" under TestKey and
\* "key1", an envelope of text that is no JSON, an envelope header with no
\* ':' after the key id, and the JSON document "{}" stored unencrypted.
SecretJSON == <<123, 125>>
GoodEnvelope ==
    fullEncrypted(Key1, encryptTestData(TestKey, SecretJSON, Repeat(0, blockSize)))
TextEnvelope ==
    fullEncrypted(Key1, encryptTestData(TestKey, Repeat(120, 17), Repeat(58, blockSize)))
MalformedValue == prefix \o Key1
MainValues == {GoodEnvelope, TextEnvelope, MalformedValue, SecretJSON}

\* A live record of a snapshot the program is run on.
LiveRecord(main, key, val) ==
    [main |-> main, sub |-> 0, klen |-> revBytesLen, ok |-> TRUE, key |-> key, val |-> val]

\* The snapshots the program is run on: no bolt database, no key table, and
\* key tables with up to three secrets, one of them possibly written at the
\* smallest main revision whose top bit is set.
MainSnapshots ==
    {[valid |-> FALSE, bucket |-> FALSE, recs |-> {}],
     [valid |-> TRUE, bucket |-> FALSE, recs |-> {}]}
    \cup {[valid |-> TRUE, bucket |-> TRUE, recs |-> a \cup b \cup c] :
            a \in {{}} \cup {{LiveRecord(0, PathK8s, v)} : v \in MainValues},
            b \in {{}} \cup {{LiveRecord(1, PathOs, v)} : v \in {GoodEnvelope, SecretJSON}},
            c \in {{}} \cup {{LiveRecord(2, PathK8s2, v)} : v \in {GoodEnvelope, MalformedValue}}
                     \cup {{LiveRecord(2 ^ (RevBits - 1), PathK8s2, GoodEnvelope)}}}

\* The value of --key: not given, text that is no base64, or the base64
\* text of some bytes.  base64.StdEncoding.DecodeString yields the bytes.
NoKeyFlag == [given |-> FALSE, valid |-> FALSE, bytes |-> <<>>]
BadKeyFlag == [given |-> TRUE, valid |-> FALSE, bytes |-> <<>>]
KeyFlag(k) == [given |-> TRUE, valid |-> TRUE, bytes |-> k]

\* flag.Parse with the defaults of the flags, --snapshot given.
DefaultArgs ==
    [showVersion |-> FALSE, snapshotPath |-> TRUE, listAll |-> FALSE, listOnly |-> FALSE,
     encryptionKey |-> NoKeyFlag, keyName |-> Key1, namespace |-> <<>>, secretName |-> <<>>]

MainArgs ==
    {[DefaultArgs EXCEPT !.showVersion = TRUE],
     [DefaultArgs EXCEPT !.snapshotPath = FALSE],
     [DefaultArgs EXCEPT !.listAll = TRUE],
     [DefaultArgs EXCEPT !.listAll = TRUE, !.listOnly = TRUE],
     [DefaultArgs EXCEPT !.listOnly = TRUE]}
    \cup {[DefaultArgs EXCEPT !.encryptionKey = k, !.keyName = id,
                              !.namespace = ns[1], !.secretName = ns[2]] :
            k \in {NoKeyFlag, BadKeyFlag, KeyFlag(ShortKey), KeyFlag(TestKey), KeyFlag(ZeroKey)},
            id \in BoundKeyIds,
            ns \in {<<Ns, Name>>, <<Ns, <<>>>>, <<<<>>, <<>>>>}}

\* The messages of main that carry no error value, and the labels of those
\* that do.
VersionLine == "etcd-secret-reader version"
SnapshotRequired == "Error: --snapshot is required"
KeyRequired == "Error: --key is required for decryption"
IllegalBase64 == "illegal base64 data"
KeyNot32Bytes == "Error: encryption key must be 32 bytes"
ProtobufFailed == "failed to decode protobuf secret"
JSONFailed == "failed to parse secret (tried both protobuf and JSON)"

\* Mutant: the message names the step that failed and not its error.
Report_Generic(label, err) == <<label>>

\* fmt.Fprintf(os.Stderr, "<label>: %v\n", err)
Report(label, err) == <<label, err>>

\* fmt.Printf of a line of output with its argument.
Line(what, text) == [what |-> what, text |-> text]

\* parseSecretPath: the last two of the non-empty parts between '/', when
\* there are at least four.
NonEmpty(parts) == SelectSeq(parts, LAMBDA p : p # <<>>)
parseSecretPath(path) ==
    LET nonEmptyParts == NonEmpty(Split(path, "/"))
        n == Len(nonEmptyParts)
    IN  IF n >= 4
        THEN [namespace |-> nonEmptyParts[n - 1], name |-> nonEmptyParts[n]]
        ELSE [namespace |-> <<>>, name |-> <<>>]

\* displaySecret after its first line: data that starts with "k8s\x00" goes
\* to the protobuf decoder, which may accept or refuse it; other data goes
\* to json.Unmarshal, which of the documents of the model accepts "{}".
displaySecret(data) ==
    IF Len(data) > 4 /\ SubSeq(data, 1, 4) = <<107, 56, 115, 0>>
    THEN {NoError, ProtobufFailed}
    ELSE IF data = SecretJSON THEN {NoError} ELSE {JSONFailed}

InitMain ==
    /\ file \in MainSnapshots
    /\ rdr = "none"
    /\ closeCalls = 0
    /\ input = NoInput
    /\ dec = NoDec
    /\ ret = NoResult
    /\ calls = NoCalls
    /\ heap = NoHeap
    /\ cli \in {[pc |-> "flags", args |-> a, i |-> 1, err |-> NoError, queue |-> <<>>,
                 gets |-> <<>>, data |-> <<>>, stdout |-> <<>>, stderr |-> <<>>, exit |-> -1] :
                   a \in MainArgs}

\* os.Exit(code) after a line on standard error.
Fail(line) == [cli EXCEPT !.pc = "exited", !.stderr = Append(@, line), !.exit = 1]

\* --version and the check of --snapshot.
MainFlags ==
    /\ cli.pc = "flags"
    /\ cli' = IF cli.args.showVersion
              THEN [cli EXCEPT !.pc = "exited", !.exit = 0,
                               !.stdout = Append(@, Line(VersionLine, <<>>))]
              ELSE IF ~cli.args.snapshotPath
              THEN Fail(<<SnapshotRequired>>)
              ELSE [cli EXCEPT !.pc = "open"]
    /\ UNCHANGED <<file, rdr, closeCalls, input, dec, ret, calls, heap>>

\* etcdreader.NewReader and defer reader.Close().
MainOpen ==
    /\ cli.pc = "open"
    /\ IF file.valid
       THEN /\ rdr' = "open"
            /\ cli' = [cli EXCEPT !.pc = "mode"]
       ELSE /\ rdr' = "none"
            /\ cli' = Fail(Report("Error opening snapshot", OpenFailed))
    /\ UNCHANGED <<file, closeCalls, input, dec, ret, calls, heap>>

\* --list-all
MainListAll ==
    /\ cli.pc = "mode"
    /\ cli.args.listAll
    /\ \E r \in ListAll(file) :
          cli' = IF r.err # NoError
                 THEN Fail(Report("Error listing all keys", r.err))
                 ELSE [cli EXCEPT
                          !.pc = "return",
                          !.stdout = @ \o [i \in 1..Len(r.list) |-> Line("key", r.list[i])]]
    /\ UNCHANGED <<file, rdr, closeCalls, input, dec, ret, calls, heap>>

\* --list
MainList ==
    /\ cli.pc = "mode"
    /\ ~cli.args.listAll
    /\ cli.args.listOnly
    /\ \E r \in ListSecrets(file) :
          cli' = IF r.err # NoError
                 THEN Fail(Report("Error listing secrets", r.err))
                 ELSE [cli EXCEPT
                          !.pc = "return",
                          !.stdout = @ \o [i \in 1..Len(r.list) |-> Line("secret", r.list[i])]]
    /\ UNCHANGED <<file, rdr, closeCalls, input, dec, ret, calls, heap>>

\* Decrypt mode: --key is checked and decoded and the decryptor is made.
MainKey ==
    /\ cli.pc = "mode"
    /\ ~cli.args.listAll
    /\ ~cli.args.listOnly
    /\ LET flag == cli.args.encryptionKey
           made == NewAESCBCDecryptor(flag.bytes, cli.args.keyName)
       IN  IF ~flag.given
           THEN cli' = Fail(<<KeyRequired>>) /\ dec' = dec
           ELSE IF ~flag.valid
           THEN cli' = Fail(Report("Error decoding encryption key", IllegalBase64)) /\ dec' = dec
           ELSE IF Len(flag.bytes) # 32
           THEN cli' = Fail(<<KeyNot32Bytes>>) /\ dec' = dec
           ELSE IF made.err # NoError
           THEN cli' = Fail(Report("Error creating decryptor", made.err)) /\ dec' = dec
           ELSE /\ dec' = made.dec
                /\ cli' = [cli EXCEPT
                              !.pc = IF cli.args.namespace # <<>> /\ cli.args.secretName # <<>>
                                     THEN "get" ELSE "list"]
    /\ UNCHANGED <<file, rdr, closeCalls, input, ret, calls, heap>>

\* Mutant: the OpenShift path is tried first.
keys_OpenShiftFirst ==
    <<SecretPath(OpenShiftPrefix, cli.args.namespace, cli.args.secretName),
      SecretPath(SecretsPrefix, cli.args.namespace, cli.args.secretName)>>

\* The paths tried for one secret, in this order.
keys ==
    <<SecretPath(SecretsPrefix, cli.args.namespace, cli.args.secretName),
      SecretPath(OpenShiftPrefix, cli.args.namespace, cli.args.secretName)>>

\* One round of the loop over keys: Get, and break when it succeeded.  gets
\* records the keys reader.Get was called with, in the order of the calls.
MainGet ==
    /\ cli.pc = "get"
    /\ cli.i <= Len(keys)
    /\ LET r == Get(file, keys[cli.i])
           called == [cli EXCEPT !.gets = Append(@, keys[cli.i])]
       IN  cli' = IF r.err = NoError
                  THEN [called EXCEPT !.pc = "decrypt", !.data = r.data, !.err = r.err]
                  ELSE [called EXCEPT !.i = @ + 1, !.data = r.data, !.err = r.err]
    /\ UNCHANGED <<file, rdr, closeCalls, input, dec, ret, calls, heap>>

\* After the loop with the error of the last Get.
MainGetFailed ==
    /\ cli.pc = "get"
    /\ cli.i > Len(keys)
    /\ cli' = Fail(Report("Error reading secret", cli.err))
    /\ UNCHANGED <<file, rdr, closeCalls, input, dec, ret, calls, heap>>

MainDecrypt ==
    /\ cli.pc = "decrypt"
    /\ LET r == Decrypt(dec, cli.data)
       IN  cli' = IF r.err # NoError
                  THEN Fail(Report("Error decrypting secret", r.err))
                  ELSE [cli EXCEPT !.pc = "display", !.data = r.data]
    /\ UNCHANGED <<file, rdr, closeCalls, input, dec, ret, calls, heap>>

MainDisplay ==
    /\ cli.pc = "display"
    /\ LET shown == [cli EXCEPT
                        !.stdout = Append(@, Line("Secret", SecretPath(<<>>, cli.args.namespace,
                                                                       cli.args.secretName)))]
       IN  \E e \in displaySecret(cli.data) :
              cli' = IF e # NoError
                     THEN [shown EXCEPT !.pc = "exited", !.exit = 1,
                                        !.stderr = Append(@, Report("Error parsing secret", e))]
                     ELSE [shown EXCEPT !.pc = "return"]
    /\ UNCHANGED <<file, rdr, closeCalls, input, dec, ret, calls, heap>>

\* All secrets: ListSecrets, then the loop over its result.
MainListSecrets ==
    /\ cli.pc = "list"
    /\ \E r \in ListSecrets(file) :
          cli' = IF r.err # NoError
                 THEN Fail(Report("Error listing secrets", r.err))
                 ELSE [cli EXCEPT !.pc = "loop", !.queue = r.list]
    /\ UNCHANGED <<file, rdr, closeCalls, input, dec, ret, calls, heap>>

\* Mutant: a secret that does not decrypt ends the run.
MainLoop_StopsAtFailure ==
    /\ cli.pc = "loop"
    /\ cli.queue # <<>>
    /\ LET secretPath == Head(cli.queue)
           next == [cli EXCEPT !.queue = Tail(@), !.gets = Append(@, secretPath)]
           got == Get(file, secretPath)
           decrypted == Decrypt(dec, got.data)
           parsed == parseSecretPath(secretPath)
           shown == [next EXCEPT
                        !.stdout = Append(@, Line("Secret", SecretPath(<<>>, parsed.namespace,
                                                                       parsed.name)))]
       IN  IF got.err # NoError
           THEN cli' = [next EXCEPT
                           !.stderr = Append(@, Report("Warning: could not read", got.err))]
           ELSE IF decrypted.err # NoError
           THEN cli' = [next EXCEPT
                           !.pc = "exited", !.exit = 1,
                           !.stderr = Append(@, Report("Warning: could not decrypt",
                                                       decrypted.err))]
           ELSE \E e \in displaySecret(decrypted.data) :
                   cli' = IF e # NoError
                          THEN [shown EXCEPT
                                   !.stderr = Append(@, Report("Warning: could not parse", e))]
                          ELSE shown
    /\ UNCHANGED <<file, rdr, closeCalls, input, dec, ret, calls, heap>>

\* One round of the loop: Get, Decrypt and displaySecret of the next path;
\* a failure writes a warning and goes on with the path after it.
MainLoop ==
    /\ cli.pc = "loop"
    /\ cli.queue # <<>>
    /\ LET secretPath == Head(cli.queue)
           next == [cli EXCEPT !.queue = Tail(@), !.gets = Append(@, secretPath)]
           got == Get(file, secretPath)
           decrypted == Decrypt(dec, got.data)
           parsed == parseSecretPath(secretPath)
           shown == [next EXCEPT
                        !.stdout = Append(@, Line("Secret", SecretPath(<<>>, parsed.namespace,
                                                                       parsed.name)))]
       IN  IF got.err # NoError
           THEN cli' = [next EXCEPT
                           !.stderr = Append(@, Report("Warning: could not read", got.err))]
           ELSE IF decrypted.err # NoError
           THEN cli' = [next EXCEPT
                           !.stderr = Append(@, Report("Warning: could not decrypt",
                                                       decrypted.err))]
           ELSE \E e \in displaySecret(decrypted.data) :
                   cli' = IF e # NoError
                          THEN [shown EXCEPT
                                   !.stderr = Append(@, Report("Warning: could not parse", e))]
                          ELSE shown
    /\ UNCHANGED <<file, rdr, closeCalls, input, dec, ret, calls, heap>>

MainLoopDone ==
    /\ cli.pc = "loop"
    /\ cli.queue = <<>>
    /\ cli' = [cli EXCEPT !.pc = "return"]
    /\ UNCHANGED <<file, rdr, closeCalls, input, dec, ret, calls, heap>>

\* main returns: the deferred reader.Close() runs and the process ends.
MainReturn ==
    /\ cli.pc = "return"
    /\ rdr' = "closed"
    /\ closeCalls' = closeCalls + 1
    /\ cli' = [cli EXCEPT !.pc = "exited", !.exit = 0]
    /\ UNCHANGED <<file, input, dec, ret, calls, heap>>

NextMain ==
    \/ MainFlags
    \/ MainOpen
    \/ MainListAll
    \/ MainList
    \/ MainKey
    \/ MainGet
    \/ MainGetFailed
    \/ MainDecrypt
    \/ MainDisplay
    \/ MainListSecrets
    \/ MainLoop
    \/ MainLoopDone
    \/ MainReturn

SpecMain == InitMain /\ [][NextMain]_vars

(***************************************************************************)
(* Vocabulary of the reader's properties, stated on the snapshot itself.   *)
(***************************************************************************)
\* The total order on revisions (main, sub), both unsigned.
RevLess(a, b) == a.main < b.main \/ (a.main = b.main /\ a.sub < b.sub)

Marked(r) == r.klen = 18
Decodes(r) == r.ok

RecordsOf(k) == {r \in file.recs : Decodes(r) /\ r.key = k}
Writes(k) == {r \in RecordsOf(k) : ~Marked(r)}
Tombstones(k) == {r \in RecordsOf(k) : Marked(r)}

\* k was written, then tombstoned at a later revision, and not written since.
WrittenThenTombstoned(k) ==
    \E w \in Writes(k), t \in Tombstones(k) :
        /\ RevLess(w, t)
        /\ \A w2 \in Writes(k) : RevLess(w2, t)

\* The record of k with the highest revision.
LastRecord(k) ==
    CHOOSE r \in RecordsOf(k) : \A o \in RecordsOf(k) \ {r} : RevLess(o, r)

\* The keys whose record with the highest revision is not a tombstone.
LiveKeys == {k \in LogicalKeys : RecordsOf(k) # {} /\ ~Marked(LastRecord(k))}

Range(s) == {s[i] : i \in 1..Len(s)}

Returned(op) == rdr = "open" /\ ret.op = op

\* The snapshot with every record whose value blob does not decode removed.
WellFormed(f) == [f EXCEPT !.recs = {r \in f.recs : Decodes(r)}]

(***************************************************************************)
(* C1 - Tombstone retraction in Get: when the requested key was written at *)
(* r1 and a tombstone for it exists at r2 > r1 with no later write, Get    *)
(* fails with KeyNotFound and returns no value.                            *)
(***************************************************************************)
C1_GetTombstoneRetraction ==
    (Returned("Get") /\ WrittenThenTombstoned(ret.arg))
        => (ret.err = KeyNotFound /\ ret.data = <<>>)

(***************************************************************************)
(* C2 - Listing with deletions: ListAll returns exactly the keys whose     *)
(* record with the highest (main, sub) revision is not a tombstone, each   *)
(* once; a key written and then tombstoned is in the result of neither     *)
(* ListAll nor ListSecrets.                                                *)
(***************************************************************************)
C2_ListAllLiveKeys ==
    /\ (Returned("ListAll") /\ file.bucket) =>
          /\ ret.err = NoError
          /\ Range(ret.list) = LiveKeys
          /\ Len(ret.list) = Cardinality(LiveKeys)
    /\ (Returned("ListAll") \/ Returned("ListSecrets")) =>
          \A k \in LogicalKeys : WrittenThenTombstoned(k) => k \notin Range(ret.list)

\* ListAll answered on a snapshot where one key is live at its highest
\* revision after an older tombstone, another was written and then tombstoned,
\* and a third is live.
C2_Witness ==
    /\ Returned("ListAll")
    /\ WrittenThenTombstoned(KeyA)
    /\ Range(ret.list) = {KeyB}
    /\ \E r \in file.recs : r.main >= 2 ^ (RevBits - 1)

(***************************************************************************)
(* C3 - Last-write-wins in Get: for a key written at r1 < r2 < r3 in the   *)
(* order on (main, sub), none tombstoned, Get returns the value written at *)
(* r3.  Stated here for main revisions below the sign bit, where reading   *)
(* main as a signed number plays no part.                                  *)
(***************************************************************************)
C3_GetLastWriteWins ==
    \A r1, r2, r3 \in Writes(ret.arg) :
        (/\ Returned("Get")
         /\ Tombstones(ret.arg) = {}
         /\ RevLess(r1, r2) /\ RevLess(r2, r3)
         /\ r3.main < 2 ^ (RevBits - 1)
         /\ \A w \in Writes(ret.arg) : w = r3 \/ RevLess(w, r3))
            => (ret.err = NoError /\ ret.data = r3.val)

(***************************************************************************)
(* C4 - Tolerant scanning: records whose value blob fails to decode, at    *)
(* any position of the scan, change the result of neither Get, ListSecrets *)
(* nor ListAll: each returns what it returns on the snapshot without them, *)
(* error included.                                                         *)
(***************************************************************************)
C4_TolerantScanning ==
    /\ Returned("Get") =>
          [data |-> ret.data, err |-> ret.err] = Get(WellFormed(file), ret.arg)
    /\ Returned("ListAll") =>
          [list |-> ret.list, err |-> ret.err] \in ListAll(WellFormed(file))
    /\ Returned("ListSecrets") =>
          [list |-> ret.list, err |-> ret.err] \in ListSecrets(WellFormed(file))

\* Get succeeded for a key although an undecodable record carrying a partial
\* copy of that key sits at a higher revision than every write of it.
C4_Witness ==
    /\ Returned("Get")
    /\ ret.err = NoError
    /\ \E bad \in file.recs :
          /\ ~Decodes(bad)
          /\ bad.key = ret.arg
          /\ ~Marked(bad)
          /\ bad.val # ret.data
          /\ \A w \in Writes(ret.arg) : RevLess(w, bad)

(***************************************************************************)
(* C5 - Prefix filtering: ListSecrets returns exactly the live keys under  *)
(* "/registry/secrets/" or "/kubernetes.io/secrets/", each once, and no    *)
(* key under another prefix; without a matching key it returns an empty    *)
(* result and no error.                                                    *)
(***************************************************************************)
C5_ListSecretsPrefixes ==
    (Returned("ListSecrets") /\ file.bucket) =>
        /\ ret.err = NoError
        /\ Range(ret.list) = LiveKeys \cap {KeyA, KeyB}
        /\ Len(ret.list) = Cardinality(LiveKeys \cap {KeyA, KeyB})
        /\ KeyC \notin Range(ret.list)

\* ListSecrets returned both secret keys while the config map's key is live.
C5_Witness ==
    /\ Returned("ListSecrets")
    /\ Range(ret.list) = {KeyA, KeyB}
    /\ KeyC \in LiveKeys

(***************************************************************************)
(* C6 - Idempotent close: after a successful NewReader, the second and     *)
(* every later Close call returns no error.                                *)
(***************************************************************************)
C6_IdempotentClose ==
    (ret.op = "Close" /\ closeCalls >= 2) => ret.err = NoError

\* A Close call that was not the first has returned, after a first Close
\* that is the one that released the file.
C6_Witness ==
    /\ ret.op = "Close"
    /\ closeCalls >= 2
    /\ rdr = "closed"

(***************************************************************************)
(* Vocabulary of the decryptor's properties.                               *)
(***************************************************************************)
\* buf ends in a well-formed PKCS#7 padding for 16-byte blocks.
ValidPKCS7(buf) ==
    /\ Len(buf) > 0
    /\ buf[Len(buf)] \in 1..16
    /\ buf[Len(buf)] <= Len(buf)
    /\ \A i \in (Len(buf) - buf[Len(buf)] + 1)..Len(buf) : buf[i] = buf[Len(buf)]

Unpadded(buf) == SubSeq(buf, 1, Len(buf) - buf[Len(buf)])

\* Decrypt returned on an envelope that encryptTestData produced.
DecryptedEnvelope == ret.op = "Decrypt" /\ input.kind = "encrypted"

\* What CBC decryption of the input's ciphertext under the decryptor's key
\* yields, padding included.
UnderBoundKey ==
    CBCDecrypt(dec.key, input.iv,
               SubSeq(encryptTestData(input.key, input.plain, input.iv),
                      17, 16 + 16 * ((Len(input.plain) \div 16) + 1)))

(***************************************************************************)
(* C7 - Round trip: a plaintext of length 0, 1, 15, 16, 17, 32 or 33,      *)
(* padded, CBC-encrypted under k with any IV and wrapped in the envelope   *)
(* "k8s:enc:aescbc:v1:key1:", is returned exactly, with no error, by       *)
(* Decrypt on a decryptor built from (k, "key1").                          *)
(***************************************************************************)
C7_RoundTrip ==
    (/\ DecryptedEnvelope
     /\ input.keyName = Key1
     /\ dec.key = input.key
     /\ dec.keyName = Key1)
        => (ret.err = NoError /\ ret.data = input.plain)

\* A block-aligned plaintext came back under an IV made of ':' bytes.
C7_Witness ==
    /\ DecryptedEnvelope
    /\ input.keyName = Key1
    /\ dec.key = input.key
    /\ dec.keyName = Key1
    /\ Len(input.plain) = 32
    /\ input.iv = Repeat(58, 16)
    /\ ret.data = input.plain

C9_KeyIdMismatch ==
    (/\ ret.op = "Decrypt"
     /\ input.kind \in {"encrypted", "forged"}
     /\ dec.keyName # <<>>
     /\ input.keyName # dec.keyName)
        => (ret.err = KeyIdMismatch /\ ret.data = <<>>)

\* The mismatch was reported for a valid ciphertext under the right cipher key.
C9_Witness ==
    /\ DecryptedEnvelope
    /\ dec.key = input.key
    /\ dec.keyName = Key1
    /\ input.keyName = Key2
    /\ ret.err = KeyIdMismatch

(***************************************************************************)
(* C10 - Advisory key id: a decryptor with an empty key id never fails     *)
(* with KeyIdMismatch, and on every envelope it returns what a decryptor   *)
(* with the same cipher key bound to the envelope's key id returns.        *)
(***************************************************************************)
C10_AdvisoryKeyId ==
    (ret.op = "Decrypt" /\ dec.keyName = <<>>) =>
        /\ ret.err # KeyIdMismatch
        /\ input.kind \in {"encrypted", "forged"} =>
              [data |-> ret.data, err |-> ret.err]
                  = Decrypt([dec EXCEPT !.keyName = input.keyName], input.data)

\* A decryptor with an empty key id decrypted an envelope that names "key2".
C10_Witness ==
    /\ DecryptedEnvelope
    /\ dec.keyName = <<>>
    /\ input.keyName = Key2
    /\ Len(input.plain) = 17
    /\ ret.err = NoError
    /\ ret.data = input.plain

\* buf starts with the bytes of p.
StartsWith(buf, p) ==
    /\ Len(buf) >= Len(p)
    /\ \A i \in 1..Len(p) : buf[i] = p[i]

(***************************************************************************)
(* C11 - Plaintext passthrough: a buffer that starts with '{' and not with *)
(* "k8s:enc:aescbc:v1:" is returned by Decrypt byte for byte with no       *)
(* error, whatever key and key id the decryptor has; a buffer that starts  *)
(* with neither, the empty one included, fails with NoEnvelope.            *)
(***************************************************************************)
C11_PlaintextPassthrough ==
    (ret.op = "Decrypt" /\ ~StartsWith(input.data, prefix)) =>
        IF StartsWith(input.data, <<123>>)
        THEN ret.err = NoError /\ ret.data = input.data
        ELSE ret.err = NoEnvelope

\* A '{' in front of an envelope header came back unchanged from a decryptor
\* bound to "key2", and so the header after the '{' was not looked at.
C11_Witness ==
    /\ ret.op = "Decrypt"
    /\ StartsWith(input.data, <<123>> \o prefix)
    /\ dec.keyName = Key2
    /\ ret.err = NoError
    /\ ret.data = input.data

\* What follows the prefix in the input, the position of its first ':', and
\* the key id and the payload on either side of it.
AfterPrefix == SubSeq(input.data, Len(prefix) + 1, Len(input.data))
ColonsAfterPrefix == {i \in 1..Len(AfterPrefix) : AfterPrefix[i] = 58}
FirstColon == CHOOSE i \in ColonsAfterPrefix : \A j \in ColonsAfterPrefix : i <= j
EnvelopeKeyId == SubSeq(AfterPrefix, 1, FirstColon - 1)
EnvelopePayload == SubSeq(AfterPrefix, FirstColon + 1, Len(AfterPrefix))

\* The error of the first of the five checks that the input fails on the
\* decryptor, in the order of the claim.
FirstFailingCheck ==
    IF ColonsAfterPrefix = {} THEN MalformedEnvelope
    ELSE IF dec.keyName # <<>> /\ EnvelopeKeyId # dec.keyName THEN KeyIdMismatch
    ELSE IF Len(EnvelopePayload) < 16 THEN CiphertextTooShort
    ELSE IF Len(EnvelopePayload) % 16 # 0 THEN CiphertextMisaligned
    ELSE IF ~ValidPKCS7(CBCDecrypt(dec.key, SubSeq(EnvelopePayload, 1, 16),
                                   SubSeq(EnvelopePayload, 17, Len(EnvelopePayload))))
    THEN PaddingInvalid
    ELSE NoError

(***************************************************************************)
(* C12 - Decrypt error precedence: on a buffer with the envelope prefix    *)
(* the checks run in the order MalformedEnvelope (no ':' after the         *)
(* prefix), KeyIdMismatch, CiphertextTooShort (payload < 16),              *)
(* CiphertextMisaligned (payload % 16 # 0), PaddingInvalid, and the error  *)
(* returned is that of the first check that fails; a 17-byte payload       *)
(* yields CiphertextMisaligned.                                            *)
(***************************************************************************)
C12_ErrorPrecedence ==
    (ret.op = "Decrypt" /\ StartsWith(input.data, prefix)) =>
        /\ ret.err = FirstFailingCheck
        /\ (/\ ColonsAfterPrefix # {}
            /\ Len(EnvelopePayload) = 17
            /\ dec.keyName \in {<<>>, EnvelopeKeyId}) => ret.err = CiphertextMisaligned

\* A wrong key id together with a payload shorter than a block was reported
\* as KeyIdMismatch.
C12_Witness ==
    /\ ret.op = "Decrypt"
    /\ input.kind = "forged"
    /\ dec.keyName = Key1
    /\ EnvelopeKeyId = Key2
    /\ Len(EnvelopePayload) = 5
    /\ ret.err = KeyIdMismatch

(***************************************************************************)
(* C13 - Padding removal: with block size 16, removePKCS7Padding fails on  *)
(* a buffer b that is empty, or whose last byte n is 0, or has n > 16, or  *)
(* n > len(b), or has a byte other than n among its last n bytes;          *)
(* otherwise it returns b without its last n bytes.                        *)
(***************************************************************************)
C13_PaddingRemoval ==
    ret.op = "removePKCS7Padding" =>
        LET b == ret.arg
            n == b[Len(b)]
        IN  IF \/ Len(b) = 0
               \/ n = 0
               \/ n > 16
               \/ n > Len(b)
               \/ \E i \in (Len(b) - n + 1)..Len(b) : b[i] # n
            THEN ret.err # NoError
            ELSE ret.err = NoError /\ ret.data = SubSeq(b, 1, Len(b) - n)

\* Five trailing 0x05 bytes were stripped from the text in front of them.
C13_Witness ==
    /\ ret.op = "removePKCS7Padding"
    /\ ret.arg = Text \o <<5, 5, 5, 5, 5>>
    /\ ret.err = NoError
    /\ ret.data = Text

(***************************************************************************)
(* C15 - Key length check: NewAESCBCDecryptor succeeds, and binds the key  *)
(* and the key id, iff the key has exactly 32 bytes; on a key of any other *)
(* length (0, 16, 64) it returns an error and no decryptor, whatever the   *)
(* key id, the empty one included.                                         *)
(***************************************************************************)
C15_KeyLengthCheck ==
    ret.op = "NewAESCBCDecryptor" =>
        IF Len(ret.arg[1]) = 32
        THEN /\ ret.err = NoError
             /\ dec = [set |-> TRUE, key |-> ret.arg[1], keyName |-> ret.arg[2]]
        ELSE /\ ret.err # NoError
             /\ dec = NoDec

\* A 16-byte key, which is an AES key, was refused under the empty key id.
C15_Witness ==
    /\ ret.op = "NewAESCBCDecryptor"
    /\ Len(ret.arg[1]) = 16
    /\ ret.arg[2] = <<>>
    /\ ret.err = InvalidKeyLength
    /\ ~dec.set

\* The positions of the ':' bytes of buf, the position of the n-th of them
\* (0 before the first, one past the end after the last), and the n-th of
\* the fields they separate.
Colons(buf) == {i \in 1..Len(buf) : buf[i] = 58}
ColonAt(buf, n) ==
    IF n = 0 THEN 0
    ELSE IF n > Cardinality(Colons(buf)) THEN Len(buf) + 1
    ELSE CHOOSE i \in Colons(buf) : Cardinality({j \in Colons(buf) : j < i}) = n - 1
FieldCount(buf) == Cardinality(Colons(buf)) + 1
Field(buf, n) == SubSeq(buf, ColonAt(buf, n - 1) + 1, ColonAt(buf, n) - 1)

(***************************************************************************)
(* C19 - Header parsing: ParseEncryptionPrefix fails with NotEnvelope iff  *)
(* the data does not start with "k8s:enc:"; otherwise it fails with        *)
(* MalformedHeader iff the data has fewer than 5 ':'-separated fields;     *)
(* otherwise it returns the 3rd field as provider and the 5th as key id,   *)
(* whatever the provider.                                                  *)
(***************************************************************************)
C19_HeaderParsing ==
    ret.op = "ParseEncryptionPrefix" =>
        IF ~StartsWith(input.data, <<107, 56, 115, 58, 101, 110, 99, 58>>)
        THEN ret.err = NotEnvelope
        ELSE IF FieldCount(input.data) < 5
        THEN ret.err = MalformedHeader
        ELSE /\ ret.err = NoError
             /\ ret.list = <<Field(input.data, 3), Field(input.data, 5)>>

\* The header of another provider's envelope was parsed: "secretbox", "key2".
C19_Witness ==
    /\ ret.op = "ParseEncryptionPrefix"
    /\ ret.err = NoError
    /\ ret.list = <<<<115, 101, 99, 114, 101, 116, 98, 111, 120>>, Key2>>

(***************************************************************************)
(* C16 - Get failure modes: Get fails with BucketMissing iff the key table *)
(* is absent from the snapshot; otherwise it fails with KeyNotFound iff no *)
(* non-tombstone physical record decodes to the requested key (the empty   *)
(* key included), and succeeds in every other case.                        *)
(***************************************************************************)
C16_GetFailureModes ==
    Returned("Get") =>
        /\ (ret.err = BucketMissing) <=> ~file.bucket
        /\ file.bucket => ((ret.err = KeyNotFound) <=> (Writes(ret.arg) = {}))
        /\ (file.bucket /\ Writes(ret.arg) # {}) => ret.err = NoError

(***************************************************************************)
(* C17 - Read-only: no NewReader, Get, ListSecrets, ListAll or Close call, *)
(* whether it succeeds or fails, changes the snapshot: the file and the    *)
(* set of its physical records are after the call what they were before,   *)
(* and so after any sequence of calls.                                     *)
(***************************************************************************)
C17_ReadOnly ==
    [][(ret'.op \in {"NewReader", "Get", "ListSecrets", "ListAll", "Close"}
        \/ rdr # "none") => file' = file]_vars

\* A Reader was opened on a snapshot with records and closed twice.
C17_Witness ==
    /\ rdr = "closed"
    /\ ret.op = "Close"
    /\ closeCalls = 2
    /\ Cardinality(file.recs) >= 2

(***************************************************************************)
(* C14 - No partial results: whenever Get, ListSecrets, ListAll or Decrypt *)
(* returns an error, it returns no data with it: no value bytes, no keys,  *)
(* no decrypted bytes.                                                     *)
(***************************************************************************)
C14_NoPartialResults ==
    (ret.op \in {"Get", "ListSecrets", "ListAll", "Decrypt"} /\ ret.err # NoError)
        => (ret.data = <<>> /\ ret.list = <<>>)

\* Get failed with KeyNotFound and no data on a snapshot that holds value
\* bytes under the requested key, in a record that is not a candidate.
C14_Witness ==
    /\ Returned("Get")
    /\ ret.err = KeyNotFound
    /\ ret.data = <<>>
    /\ \E r \in file.recs : r.key = ret.arg /\ ~Marked(r) /\ r.val # <<>>

(***************************************************************************)
(* C20 - Decryptor sharing: when several callers run Decrypt concurrently  *)
(* on one decryptor, in any interleaving of their steps, each call returns *)
(* what Decrypt returns on its buffer when run alone, and the bound key,   *)
(* the bound key id and every caller's buffer stay what they were.         *)
(***************************************************************************)
C20_DecryptorSharing ==
    /\ \A c \in DOMAIN calls :
          /\ heap[dataBuf(c)] = calls[c].data
          /\ calls[c].pc = "done" => calls[c].ret = Decrypt(dec, calls[c].data)
    /\ (dec.set /\ calls # NoCalls) => (dec.key = ret.arg[1] /\ dec.keyName = ret.arg[2])

\* One call has returned a plaintext while another call, on another
\* envelope, has decrypted its payload and not yet removed the padding.
C20_Witness ==
    /\ calls # NoCalls
    /\ calls[1].pc = "done"
    /\ calls[1].ret.err = NoError
    /\ calls[1].ret.data = Repeat(120, 17)
    /\ calls[2].pc = "unpad"
    /\ calls[2].data # calls[1].data
    /\ heap[plaintextBuf(2)] # <<>>

(***************************************************************************)
(* Vocabulary of the program's properties.                                 *)
(***************************************************************************)
StoredAt(k) == {r \in file.recs : r.key = k}

\* The program was run for the secret ns/n with a usable key, and has ended.
SingleSecretRun ==
    /\ cli.pc = "exited"
    /\ dec.set
    /\ cli.args.namespace = Ns
    /\ cli.args.secretName = Name

\* The value stored for the secret: under the Kubernetes path if there is
\* one, and else under the OpenShift path.
SecretMissing == file.bucket /\ StoredAt(PathK8s) = {} /\ StoredAt(PathOs) = {}
StoredValue ==
    (CHOOSE r \in StoredAt(IF StoredAt(PathK8s) # {} THEN PathK8s ELSE PathOs) : TRUE).val

\* The run ended with exit status 1 and this one line on standard error.
Reported(line) == cli.exit = 1 /\ cli.stderr = <<line>>

(***************************************************************************)
(* C18 - Distinguishable failures: a missing key (KeyNotFound), a wrong    *)
(* cipher key (PaddingInvalid), a wrong key id (KeyIdMismatch) and a       *)
(* malformed envelope (MalformedEnvelope) are four different error values, *)
(* and the program run for one secret reports the error of the failure     *)
(* that occurred, not a generic one.                                       *)
(***************************************************************************)
C18_DistinguishableFailures ==
    /\ Cardinality({KeyNotFound, PaddingInvalid, KeyIdMismatch, MalformedEnvelope}) = 4
    /\ (SingleSecretRun /\ file.bucket) =>
          IF SecretMissing
          THEN Reported(<<"Error reading secret", KeyNotFound>>)
          ELSE /\ StoredValue = MalformedValue
                    => Reported(<<"Error decrypting secret", MalformedEnvelope>>)
               /\ (StoredValue \in {GoodEnvelope, TextEnvelope} /\ dec.keyName = Key2)
                    => Reported(<<"Error decrypting secret", KeyIdMismatch>>)
               /\ (/\ StoredValue \in {GoodEnvelope, TextEnvelope}
                   /\ dec.keyName # Key2
                   /\ dec.key = ZeroKey)
                    => Reported(<<"Error decrypting secret", PaddingInvalid>>)

\* The run with the all-zero key on an envelope made under another key has
\* ended with the padding error on standard error, the Reader still open.
C18_Witness ==
    /\ SingleSecretRun
    /\ StoredAt(PathK8s) = {LiveRecord(0, PathK8s, GoodEnvelope)}
    /\ dec.key = ZeroKey
    /\ cli.stderr = <<<<"Error decrypting secret", PaddingInvalid>>>>
    /\ cli.exit = 1

\* The writes of k whose main revision, read as an unsigned number, is the
\* largest among the writes of k.
LargestMainWrites(k) == {w \in Writes(k) : \A o \in Writes(k) : o.main <= w.main}

(***************************************************************************)
(* C21 - Unsigned revision comparison: Get compares main as an unsigned    *)
(* 64-bit number, so every non-tombstone record of the requested key is a  *)
(* candidate whatever its main, values with the top bit set included, and  *)
(* Get returns the value of a candidate with the largest unsigned main.    *)
(***************************************************************************)
C21_UnsignedMain ==
    (Returned("Get") /\ file.bucket /\ Writes(ret.arg) # {}) =>
        /\ ret.err = NoError
        /\ ret.data \in {w.val : w \in LargestMainWrites(ret.arg)}

\* What Get returns when its loop meets the records in the order scan.
GetInOrder(scan, key) ==
    LET s == GetScan(scan, key, -1, <<>>)
    IN  IF s.panic THEN [data |-> <<>>, err |-> Aborted]
        ELSE [data |-> s.data, err |-> IF s.latestRev = -1 THEN KeyNotFound ELSE NoError]

(***************************************************************************)
(* C22 - Scan-order independence of Get: the records of a snapshot have    *)
(* pairwise distinct (main, sub) revisions, and what Get returns for a key *)
(* is what its loop yields in every order of scanning these records, the   *)
(* cursor's order being one of them.                                       *)
(***************************************************************************)
C22_ScanOrderIndependence ==
    (Returned("Get") /\ file.bucket) =>
        \A scan \in MapOrders(file.recs) :
            GetInOrder(scan, ret.arg) = [data |-> ret.data, err |-> ret.err]

\* k was written, tombstoned at a later revision and written again after
\* that, at r3, the highest revision of k.
Recreated(k, r3) ==
    /\ r3 \in Writes(k)
    /\ \A o \in RecordsOf(k) \ {r3} : RevLess(o, r3)
    /\ \E r1 \in Writes(k), r2 \in Tombstones(k) : RevLess(r1, r2) /\ RevLess(r2, r3)

Occurrences(list, k) == Cardinality({i \in 1..Len(list) : list[i] = k})

(***************************************************************************)
(* C23 - Re-creation after deletion: for a key written at r1, tombstoned   *)
(* at r2 > r1 and written again at r3 > r2, Get returns the value written  *)
(* at r3, ListAll includes the key exactly once, and so does ListSecrets   *)
(* when the key is under one of its prefixes.                              *)
(***************************************************************************)
C23_Recreation ==
    \A k \in LogicalKeys : \A r3 \in Writes(k) :
        Recreated(k, r3) =>
            /\ (Returned("Get") /\ ret.arg = k) => (ret.err = NoError /\ ret.data = r3.val)
            /\ Returned("ListAll") => Occurrences(ret.list, k) = 1
            /\ (Returned("ListSecrets") /\ k \in {KeyA, KeyB}) => Occurrences(ret.list, k) = 1

\* k starts with one of the two prefixes of secrets.
IsSecretKey(k) ==
    \E p \in {<<"/","r","e","g","i","s","t","r","y","/","s","e","c","r","e","t","s","/">>,
              <<"/","k","u","b","e","r","n","e","t","e","s",".","i","o","/",
                "s","e","c","r","e","t","s","/">>} :
        Len(k) >= Len(p) /\ SubSeq(k, 1, Len(p)) = p

(***************************************************************************)
(* C24 - ListSecrets refines ListAll: on every snapshot the set of keys    *)
(* ListSecrets returns is the set ListAll returns restricted to the keys   *)
(* that start with "/registry/secrets/" or "/kubernetes.io/secrets/", and  *)
(* either call fails with BucketMissing iff the other does.  Stated for    *)
(* the snapshot ListSecrets has answered on, against every answer ListAll  *)
(* has on it.                                                              *)
(***************************************************************************)
C24_ListSecretsRefinesListAll ==
    Returned("ListSecrets") =>
        \A all \in ListAll(file) :
            /\ Range(ret.list) = {k \in Range(all.list) : IsSecretKey(k)}
            /\ (ret.err = BucketMissing) <=> (all.err = BucketMissing)

\* ListSecrets returned one secret on a snapshot where a config map is live,
\* so that ListAll returns more, and where the other secret has a tombstone.
C24_Witness ==
    /\ Returned("ListSecrets")
    /\ Range(ret.list) = {KeyA}
    /\ KeyC \in LiveKeys
    /\ Tombstones(KeyB) # {}

\* The record of k that the cursor reaches last.
LastScanned(k) ==
    CHOOSE r \in RecordsOf(k) : \A o \in RecordsOf(k) \ {r} : KeyLess(o, r)

(***************************************************************************)
(* C25 - Bounds-checked key decoding: on a snapshot whose physical keys    *)
(* have any length, Get, ListSecrets and ListAll complete with a value or  *)
(* one of their named errors and never abort, and only a physical key of   *)
(* exactly 18 bytes counts as a tombstone: a key is listed iff the last    *)
(* record scanned for it has a physical key of another length.             *)
(***************************************************************************)
C25_BoundsCheckedDecoding ==
    /\ ret.op \in {"Get", "ListSecrets", "ListAll"} =>
          ret.err \in {NoError, BucketMissing, KeyNotFound}
    /\ Returned("ListAll") =>
          Range(ret.list) = {k \in LogicalKeys :
                                RecordsOf(k) # {} /\ LastScanned(k).klen # 18}

(***************************************************************************)
(* C26 - Listed keys are retrievable: for every key that ListSecrets or    *)
(* ListAll returns, Get of that key on the same snapshot succeeds and      *)
(* returns the value of a non-tombstone record of the key.                 *)
(***************************************************************************)
C26_ListedKeysRetrievable ==
    (Returned("ListSecrets") \/ Returned("ListAll")) =>
        \A i \in 1..Len(ret.list) :
            /\ Get(file, ret.list[i]).err = NoError
            /\ Get(file, ret.list[i]).data \in {w.val : w \in Writes(ret.list[i])}

(***************************************************************************)
(* C27 - Decrypt is total: on every input buffer, whatever its length, its *)
(* content and the number of ':' bytes in its payload, a constructed       *)
(* decryptor's Decrypt returns a plaintext or one of its named errors and  *)
(* never aborts; when it succeeds on an envelope, the plaintext is shorter *)
(* than the ciphertext (the payload without its 16-byte IV) by between 1   *)
(* and 16 bytes.                                                           *)
(***************************************************************************)
C27_DecryptTotal ==
    ret.op = "Decrypt" =>
        /\ ret.err \in {NoError, NoEnvelope, MalformedEnvelope, KeyIdMismatch,
                        CiphertextTooShort, CiphertextMisaligned, PaddingInvalid}
        /\ (ret.err = NoError /\ StartsWith(input.data, prefix)) =>
              (Len(EnvelopePayload) - 16) - Len(ret.data) \in 1..16

\* A plaintext of one block came back from an envelope whose IV is sixteen
\* ':' bytes: the ciphertext has two blocks, sixteen bytes more.
C27_Witness ==
    /\ DecryptedEnvelope
    /\ ret.err = NoError
    /\ input.iv = Repeat(58, 16)
    /\ Len(ret.data) = 16
    /\ Len(EnvelopePayload) = 48

\* The program runs, or has run, the loop over all secrets of a snapshot
\* with a key table.
DecryptAllRun ==
    /\ cli.pc \in {"loop", "return", "exited"}
    /\ dec.set
    /\ ~(cli.args.namespace # <<>> /\ cli.args.secretName # <<>>)
    /\ file.bucket

\* The warnings that processing the paths, in this order, writes: for each
\* path at most one, naming the first of Get, Decrypt and display to fail.
WarningFor(path) ==
    LET got == Get(file, path)
        decrypted == Decrypt(dec, got.data)
    IN  IF got.err # NoError THEN <<<<"Warning: could not read", got.err>>>>
        ELSE IF decrypted.err # NoError
        THEN <<<<"Warning: could not decrypt", decrypted.err>>>>
        ELSE IF decrypted.data # <<123, 125>>
        THEN <<<<"Warning: could not parse", JSONFailed>>>>
        ELSE <<>>

RECURSIVE WarningsFor(_)
WarningsFor(paths) ==
    IF paths = <<>> THEN <<>>
    ELSE WarningFor(Head(paths)) \o WarningsFor(Tail(paths))

SingleSecretMode ==
    /\ cli.pc \in {"get", "decrypt", "display", "return", "exited"}
    /\ dec.set
    /\ cli.args.namespace = Ns
    /\ cli.args.secretName = Name

\* A line with this label is on standard error.
ReportedLabel(label) == \E i \in 1..Len(cli.stderr) : cli.stderr[i][1] = label

C30_HandleRelease ==
    (cli.pc = "exited" /\ rdr # "none") => (rdr = "closed" /\ closeCalls >= 1)

====
